---- MODULE Spec2Model ----
(***************************************************************************)
(* Model of parse.py: the markdown exporter of a directory tree.           *)
(*                                                                         *)
(* A file name is a sequence of tokens in which "." is a token of its own  *)
(* (".git" is <<".", "git">>, "a.py" is <<"a", ".", "py">>), so that the   *)
(* suffix of a name is computed and not looked up.  A path is a sequence   *)
(* of names.  The file system below the root is the function fs from the   *)
(* paths relative to the root to the inode found there; rootParts is the   *)
(* component list of the resolved root itself.                             *)
(***************************************************************************)
EXTENDS Integers, Sequences, FiniteSets, TLC

\* ------------------------------------------------------------------ bounds
MaxFiles == 2        \* regular files created before the first run
MaxDirs == 1         \* directories created below the root
MaxLinks == 1        \* symlinks to directories created
MaxRevokes == 1      \* permission changes made by the environment
MaxRuns == 2         \* invocations of parse_codebase

\* --------------------------------------------------------------- constants
OUTPUT_FILE == <<"code", ".", "md">>

IGNORE_DIRS ==
  { <<".", "anchor">>, <<".", "git">>, <<"node_modules">>, <<"target">>,
    <<"__pycache__">>, <<".", "idea">>, <<".", "vscode">>, <<"venv">>,
    <<"dist">>, <<"build">>, <<"test-ledger">>, <<"public">>, <<"api">>,
    <<"bank">>, <<"config">>, <<"middleware">>, <<"tests">>, <<"utils">> }

IGNORE_FILES ==
  { <<".", "DS_Store">>, <<"Thumbs", ".", "db">>, <<".", "gitignore">>,
    <<".", "prettierignore">>, <<"cargo", ".", "bak">>,
    <<"Cargo", ".", "lock">>, <<"yarn", ".", "lock">>,
    <<"README", ".", "md">>, <<"Dockerfile">>, <<"parse", ".", "py">>,
    <<"package-lock", ".", "json">>, <<"go", ".", "sum">>,
    <<"go", ".", "mod">>, <<"swagger", ".", "yaml">>,
    <<"internal", ".", "md">>, <<"setup", ".", "sh">>,
    <<"start-validator", ".", "sh">>, <<"CONTRIBUTING", ".", "md">>,
    <<"DEPLOYMENT", ".", "md">>, <<"LICENSE">>,
    <<"pnpm-lock", ".", "yaml">>, <<"SETUP", ".", "md">>,
    <<"update", ".", "txt">>, <<"banks", ".", "json">>,
    <<"hold", ".", "json">>, <<"file", ".", "json">>,
    <<"storage", ".", "json">> }

DefaultMaxDepth == 5

\* ------------------------------------------------- the inputs that are drawn
FileNamePool == { <<"a", ".", "py">>, <<"Makefile">>, <<"README", ".", "md">> }
DirNamePool == { <<"src">>, <<"build">> }
LinkNamePool == { <<"lnk">> }

\* resolved locations of the root directory
RootChoices ==
  { << <<"/">>, <<"home">>, <<"proj">> >>, << <<"/">>, <<"build">>, <<"proj">> >> }

\* where the -o argument points: outside the analysed tree, or the default
\* file name with the root as working directory
DotDot == <<"..">>
External == <<DotDot, OUTPUT_FILE>>
OutputChoices == { External, <<OUTPUT_FILE>> }

SizePool == { 128 }                \* st_size of a created file, in bytes
Content == <<"print(1)", "print(2)">>   \* the lines of a created file

NoFile == <<>>      \* the content of a file that does not exist
Stale == << <<"# Codebase Analysis: ", <<"old">> >> >>   \* an earlier export
None == <<>>

\* --------------------------------------------------------------- sequences
Last(s) == s[Len(s)]
Front(s) == SubSeq(s, 1, Len(s) - 1)

\* ------------------------------------------------------------------- names
\* str.lower() on the tokens the pools use
LowerToken(t) ==
  CASE t = "Makefile" -> "makefile"
    [] t = "README" -> "readme"
    [] t = "PY" -> "py"
    [] OTHER -> t

Lower(name) == [i \in 1..Len(name) |-> LowerToken(name[i])]

\* the lower-cased pool names in the order Python compares strings
NameOrder ==
  << <<"a", ".", "py">>, <<"build">>, <<"code", ".", "md">>, <<"lnk">>,
     <<"makefile">>, <<"readme", ".", "md">>, <<"src">> >>

Rank(name) == CHOOSE i \in 1..Len(NameOrder) : NameOrder[i] = Lower(name)

\* PurePath.suffix: the part from the last dot on, empty when the last dot
\* leads the name or ends it
Suffix(name) ==
  LET dots == { i \in 1..Len(name) : name[i] = "." }
  IN  IF dots = {} THEN <<>>
      ELSE LET i == CHOOSE d \in dots : \A e \in dots : e <= d
           IN  IF i > 1 /\ i < Len(name) THEN SubSeq(name, i, Len(name))
               ELSE <<>>

Ignored(name) == name \in IGNORE_DIRS \/ name \in IGNORE_FILES

\* ------------------------------------------------------------- file system
VARIABLES
  rootParts,          \* Path(root_folder).resolve().parts
  output_file,        \* the -o argument: External or a path below the root
  guess_type_raises,  \* whether mimetypes.guess_type rejects a Path object
  fs,                 \* path below the root |-> inode; <<>> is the root
  outside,            \* content of the file External names
  clock,              \* the wall clock, one tick per invocation
  revokes,            \* permission changes made so far
  quiet               \* no outside change since the first invocation began

File(content, size, mtime) ==
  [kind |-> "file", mode |-> "rw-", target |-> <<>>, content |-> content,
   size |-> size, mtime |-> mtime]
Dir ==
  [kind |-> "dir", mode |-> "rwx", target |-> <<>>, content |-> <<>>,
   size |-> 0, mtime |-> 0]
Link(target) ==
  [kind |-> "link", mode |-> "rwx", target |-> target, content |-> <<>>,
   size |-> 0, mtime |-> 0]

Exists(p) == p \in DOMAIN fs

\* the inode a path names once its symlinks are followed; link targets are
\* stored resolved
RECURSIVE Resolve(_)
Resolve(p) ==
  IF p = <<>> THEN <<>>
  ELSE LET q == Append(Resolve(Front(p)), Last(p))
       IN  IF Exists(q) /\ fs[q].kind = "link" THEN fs[q].target ELSE q

\* every directory on the way to p (p excluded) can be searched
Searchable(p) ==
  \A k \in 0..(Len(p) - 1) :
     LET d == SubSeq(p, 1, k) IN Exists(d) => fs[d].mode = "rwx"

\* Path.is_dir() and Path.is_file(), which follow symlinks
is_dir(p) == Exists(Resolve(p)) /\ fs[Resolve(p)].kind = "dir"
is_file(p) == Exists(Resolve(p)) /\ fs[Resolve(p)].kind = "file"

\* the names os.scandir finds in the directory inode d
Names(d) == { Last(p) : p \in { q \in DOMAIN fs : q # <<>> /\ Front(q) = d } }

\* the order in which the file system lists names: not the sorted one
RECURSIVE Listing(_)
Listing(names) ==
  IF names = {} THEN <<>>
  ELSE LET n == CHOOSE x \in names : \A y \in names : Rank(y) <= Rank(x)
       IN  <<n>> \o Listing(names \ {n})

envVars == <<rootParts, output_file, guess_type_raises, fs, outside, clock,
             revokes, quiet>>

\* ------------------------------------------------------------ program state
VARIABLES
  pc,           \* "setup", "tree", "walk", "done" or "aborted"
  runs,         \* invocations started
  stack,        \* the active calls of generate_tree, innermost last
  tree_lines,   \* the lines generate_tree has produced so far
  work,         \* what root.rglob("*") has still to yield
  md_parts,
  file_count,
  total_size,   \* in hundredths of a KB
  file_types,
  stderr,
  stdout,
  history       \* what each finished invocation produced

progVars == <<pc, runs, stack, tree_lines, work, md_parts, file_count,
              total_size, file_types, stderr, stdout, history>>
vars == <<envVars, progVars>>

\* ------------------------------------------------------------ generate_tree
\* the box-drawing strings, in ASCII
BranchConnector == "|-- "
CornerConnector == "+-- "
BranchExtension == "|   "
CornerExtension == "    "
Marker == "... (max depth reached)"

MarkerLine(prefix) ==
  [prefix |-> prefix, connector |-> CornerConnector, name |-> Marker, slash |-> "",
   entry |-> None]

\* iterdir() succeeds: the directory is readable and can be reached
CanList(d) == fs[d].mode \in {"rwx", "r--"} /\ Searchable(d)
\* stat() of an entry of d succeeds
CanStat(d) == fs[d].mode = "rwx" /\ Searchable(d)

\* key=lambda e: (e.is_file(), e.name.lower())
KeyLess(d, a, b) ==
  LET fa == is_file(Append(d, a))
      fb == is_file(Append(d, b))
  IN  \/ ~fa /\ fb
      \/ fa = fb /\ Rank(a) < Rank(b)

\* sorted(..., key=...) of the names kept by the filter
RECURSIVE SortedEntries(_, _)
SortedEntries(d, names) ==
  IF names = {} THEN <<>>
  ELSE LET n == CHOOSE x \in names : \A y \in names \ {x} : KeyLess(d, x, y)
       IN  <<n>> \o SortedEntries(d, names \ {n})

\* the filter with only one of the two ignore sets consulted
Kept_DirsOnly(d) == { n \in Names(d) : n \notin IGNORE_DIRS }

Kept(d) == { n \in Names(d) : n \notin IGNORE_DIRS /\ n \notin IGNORE_FILES }

Frame(root, real, prefix, depth) ==
  [root |-> root, real |-> real, prefix |-> prefix, depth |-> depth,
   entries |-> <<>>, i |-> 0, entered |-> FALSE]

Top == stack[Len(stack)]

\* what one finished invocation leaves behind
Outcome(status) ==
  [status |-> status, tree |-> tree_lines,
   sections |-> IF Len(md_parts) > 5 THEN SubSeq(md_parts, 6, Len(md_parts))
                ELSE <<>>]

\* the outermost handler swallowing the error without a word
Abort_Silent(e) ==
  /\ pc' = "aborted"
  /\ stderr' = stderr
  /\ history' = Append(history, Outcome("aborted"))
  /\ stack' = <<>>
  /\ work' = <<>>
  /\ UNCHANGED <<runs, tree_lines, md_parts, file_count, total_size,
                 file_types, stdout>>

\* the outermost handler: one error line, nothing written
Abort(e) ==
  /\ pc' = "aborted"
  /\ stderr' = Append(stderr, <<"error", e>>)
  /\ history' = Append(history, Outcome("aborted"))
  /\ stack' = <<>>
  /\ work' = <<>>
  /\ UNCHANGED <<runs, tree_lines, md_parts, file_count, total_size,
                 file_types, stdout>>

\* the line appended for files only
ResultAppend_FilesOnly(result, prefix, connector, name, isdir, entry) ==
  IF isdir THEN result
  ELSE Append(result, [prefix |-> prefix, connector |-> connector,
                       name |-> name, slash |-> "", entry |-> entry])

\* line 78: result.append(...) for the entry at the path entry
ResultAppend(result, prefix, connector, name, isdir, entry) ==
  Append(result, [prefix |-> prefix, connector |-> connector, name |-> name,
                  slash |-> IF isdir THEN "/" ELSE "", entry |-> entry])

\* the cut-off taken one level too late
DepthExceeded_OffByOne(depth, max_depth) == depth > max_depth + 1

\* line 64
DepthExceeded(depth, max_depth) == depth > max_depth

\* lines 64-75: the depth test, the listing, the filter and the sort
TreeCall ==
  /\ pc = "tree" /\ stack # <<>> /\ ~Top.entered
  /\ UNCHANGED envVars
  /\ IF DepthExceeded(Top.depth, DefaultMaxDepth)
     THEN /\ tree_lines' = Append(tree_lines, MarkerLine(Top.prefix))
          /\ stack' = Front(stack)
          /\ UNCHANGED <<pc, runs, work, md_parts, file_count, total_size,
                         file_types, stderr, stdout, history>>
     ELSE IF ~CanList(Top.real) \/ (Kept(Top.real) # {} /\ ~CanStat(Top.real))
     THEN Abort("PermissionError")
     ELSE /\ stack' = [stack EXCEPT ![Len(stack)] =
                         [@ EXCEPT !.entries = SortedEntries(Top.real, Kept(Top.real)),
                                   !.i = 1, !.entered = TRUE]]
          /\ UNCHANGED <<pc, runs, tree_lines, work, md_parts, file_count,
                         total_size, file_types, stderr, stdout, history>>

\* lines 76-83: one turn of the loop over the entries
TreeEntry ==
  /\ pc = "tree" /\ stack # <<>> /\ Top.entered /\ Top.i <= Len(Top.entries)
  /\ UNCHANGED envVars
  /\ LET f == Top
         name == f.entries[f.i]
         last == f.i = Len(f.entries)
         entry == Append(f.root, name)
         real == Append(f.real, name)
         connector == IF last THEN CornerConnector ELSE BranchConnector
         extension == IF last THEN CornerExtension ELSE BranchExtension
         advanced == [stack EXCEPT ![Len(stack)] = [@ EXCEPT !.i = f.i + 1]]
     IN  IF ~CanStat(f.real)
         THEN Abort("PermissionError")
         ELSE /\ tree_lines' = ResultAppend(tree_lines, f.prefix, connector,
                                             name, is_dir(real), entry)
              /\ stack' = IF is_dir(real)
                          THEN Append(advanced,
                                 Frame(entry, Resolve(real),
                                       Append(f.prefix, extension), f.depth + 1))
                          ELSE advanced
              /\ UNCHANGED <<pc, runs, work, md_parts, file_count, total_size,
                             file_types, stderr, stdout, history>>

\* the fragments md_parts starts with (lines 150-160)
Header ==
  << <<"# Codebase Analysis: ", Last(rootParts)>>,
     <<"Generated: ", clock>>,
     <<"## Project Structure">>,
     <<"tree-fence", <<Last(rootParts)>> \o tree_lines, "fence">>,
     <<"## File Contents">> >>

WorkItem(op, path) == [op |-> op, path |-> path]

\* line 84, and for the outermost call lines 150-167
TreeReturn ==
  /\ pc = "tree" /\ stack # <<>> /\ Top.entered /\ Top.i > Len(Top.entries)
  /\ UNCHANGED envVars
  /\ stack' = Front(stack)
  /\ IF Len(stack) = 1
     THEN /\ pc' = "walk"
          /\ md_parts' = Header
          /\ file_count' = 0
          /\ total_size' = 0
          /\ file_types' = {}
          /\ work' = <<WorkItem("list", <<>>)>>
          /\ UNCHANGED <<runs, tree_lines, stderr, stdout, history>>
     ELSE UNCHANGED <<pc, runs, tree_lines, work, md_parts, file_count,
                      total_size, file_types, stderr, stdout, history>>

\* ------------------------------------------------------ detect_content_type
extension_mapping ==
  { <<"rs", "rust">>, <<"go", "go">>, <<"py", "python">>,
    <<"js", "javascript">>, <<"ts", "typescript">>, <<"java", "java">>,
    <<"c", "c">>, <<"cpp", "cpp">>, <<"cs", "csharp">>, <<"rb", "ruby">>,
    <<"php", "php">>, <<"html", "html">>, <<"css", "css">>,
    <<"scss", "scss">>, <<"toml", "toml">>, <<"json", "json">>,
    <<"md", "markdown">>, <<"txt", "plaintext">>, <<"sh", "shell">>,
    <<"yml", "yaml">>, <<"yaml", "yaml">>, <<"sql", "sql">>,
    <<"xml", "xml">>, <<"dockerfile", "dockerfile">>, <<"ipynb", "json">> }

\* mimetypes.guess_type on the suffixes it knows, as <<type, subtype>>
MimeTypes == { <<"csv", <<"text", "csv">> >>, <<"png", <<"image", "png">> >> }

Raised == "<raised>"

detect_content_type(name) ==
  LET suffix == Lower(Suffix(name))
      ext == IF suffix = <<>> THEN "" ELSE suffix[2]
      mapped == { m \in extension_mapping : m[1] = ext }
      guessed == { m \in MimeTypes : m[1] = ext }
  IN  IF mapped # {} THEN (CHOOSE m \in mapped : TRUE)[2]
      ELSE IF guess_type_raises THEN Raised
      ELSE IF guessed # {} THEN Last((CHOOSE m \in guessed : TRUE)[2])
      ELSE "plaintext"

\* ----------------------------------------------------------- get_file_stats
\* f"{st_size / 1024:.2f}" in hundredths of a KB: round half to even
Hundredths(size) ==
  LET q == (size * 100) \div 1024
      r == (size * 100) % 1024
  IN  IF r > 512 \/ (r = 512 /\ q % 2 = 1) THEN q + 1 ELSE q

\* the value returned for a file inode; None when stat() or open() fails
get_file_stats(inode, fails) ==
  IF fails THEN None
  ELSE << [size |-> Hundredths(inode.size), modified |-> inode.mtime,
           lines |-> Len(inode.content)] >>

\* ------------------------------------------------------ the content walk
Acc == [md_parts |-> md_parts, file_count |-> file_count,
        total_size |-> total_size, file_types |-> file_types,
        stderr |-> stderr]

Section(relative_path, file_stats, language, content) ==
  [heading |-> relative_path,
   info |-> IF file_stats # None
            THEN << <<"- Size: ", file_stats[1].size>>,
                    <<"- Lines: ", file_stats[1].lines>>,
                    <<"- Last Modified: ", file_stats[1].modified>> >>
            ELSE <<>>,
   language |-> language,
   content |-> content]

Warning(acc, file_path, e) ==
  [acc EXCEPT !.stderr = Append(@, <<"warning", file_path, e>>)]

\* the per-file body as it would be had the part named in variant been
\* moved ahead of read_text, out of reach of the failure of the file
ProcessFile_Variant(acc, relative_path, inode, stat_fails, variant) ==
  LET language == detect_content_type(Last(relative_path))
      file_stats == get_file_stats(inode, stat_fails)
      early == [acc EXCEPT
                  !.file_count = IF variant = "count" THEN @ + 1 ELSE @,
                  !.file_types = IF variant = "types"
                                 THEN @ \cup {Suffix(Last(relative_path))}
                                 ELSE @]
      failed(e) == IF variant = "silent" THEN early
                   ELSE Warning(early, relative_path, e)
  IN  IF inode.mode # "rw-" THEN failed("PermissionError")
      ELSE IF language = Raised THEN failed("TypeError")
      ELSE [early EXCEPT
              !.file_count = IF variant = "count" THEN @ ELSE @ + 1,
              !.file_types = @ \cup {Suffix(Last(relative_path))},
              !.total_size = IF file_stats # None THEN @ + file_stats[1].size
                             ELSE IF variant = "size"
                             THEN @ + Hundredths(inode.size) ELSE @,
              !.md_parts = Append(@, Section(relative_path, file_stats,
                                             language, inode.content))]

ProcessFile_CountFirst(acc, relative_path, inode, stat_fails) ==
  ProcessFile_Variant(acc, relative_path, inode, stat_fails, "count")
ProcessFile_TypesFirst(acc, relative_path, inode, stat_fails) ==
  ProcessFile_Variant(acc, relative_path, inode, stat_fails, "types")
ProcessFile_SilentSkip(acc, relative_path, inode, stat_fails) ==
  ProcessFile_Variant(acc, relative_path, inode, stat_fails, "silent")
ProcessFile_SizeFromInode(acc, relative_path, inode, stat_fails) ==
  ProcessFile_Variant(acc, relative_path, inode, stat_fails, "size")

\* lines 174-199 for the regular file at relative_path: readable says
\* whether read_text succeeds, stat_fails whether get_file_stats finds the
\* file gone or closed to it
ProcessFile(acc, relative_path, inode, stat_fails) ==
  LET language == detect_content_type(Last(relative_path))
      file_stats == get_file_stats(inode, stat_fails)
  IN  IF inode.mode # "rw-"
      THEN Warning(acc, relative_path, "PermissionError")
      ELSE IF language = Raised
      THEN Warning(acc, relative_path, "TypeError")
      ELSE [acc EXCEPT
              !.file_count = @ + 1,
              !.file_types = @ \cup {Suffix(Last(relative_path))},
              !.total_size = IF file_stats # None
                             THEN @ + file_stats[1].size ELSE @,
              !.md_parts = Append(@, Section(relative_path, file_stats,
                                             language, inode.content))]

\* the generator behind root.rglob("*") enters the next directory: its
\* entries are yielded first, its real subdirectories entered afterwards; a
\* directory that cannot be listed yields nothing
WalkList ==
  /\ pc = "walk" /\ work # <<>> /\ Head(work).op = "list"
  /\ LET d == Head(work).path
         listing == Listing(Names(d))
         yielded == [i \in 1..Len(listing) |->
                       WorkItem("entry", Append(d, listing[i]))]
         subdirs == SelectSeq(listing, LAMBDA n : fs[Append(d, n)].kind = "dir")
         entered == [i \in 1..Len(subdirs) |->
                       WorkItem("list", Append(d, subdirs[i]))]
     IN  work' = IF CanList(d) THEN yielded \o entered \o Tail(work)
                 ELSE Tail(work)
  /\ UNCHANGED <<envVars, pc, runs, stack, tree_lines, md_parts, file_count,
                 total_size, file_types, stderr, stdout, history>>

\* file_path.parts of the path the generator yields
Parts(relative_path) == rootParts \o relative_path

\* lines 167-199: the loop body for the next path yielded.  revoked is the
\* race in which the file is closed to the program after read_text and
\* before get_file_stats.
WalkEntry ==
  /\ pc = "walk" /\ work # <<>> /\ Head(work).op = "entry"
  /\ UNCHANGED <<rootParts, output_file, guess_type_raises, outside, clock>>
  /\ LET relative_path == Head(work).path
         parts == Parts(relative_path)
     IN  IF \E k \in 1..Len(parts) :
               parts[k] \in IGNORE_DIRS \/ parts[k] \in IGNORE_FILES
         THEN /\ work' = Tail(work)
              /\ UNCHANGED <<fs, revokes, quiet, pc, runs, stack, tree_lines,
                             md_parts, file_count, total_size, file_types,
                             stderr, stdout, history>>
         ELSE IF ~CanStat(Front(relative_path))
         THEN Abort("PermissionError") /\ UNCHANGED <<fs, revokes, quiet, runs>>
         ELSE IF ~is_file(relative_path)
         THEN /\ work' = Tail(work)
              /\ UNCHANGED <<fs, revokes, quiet, pc, runs, stack, tree_lines,
                             md_parts, file_count, total_size, file_types,
                             stderr, stdout, history>>
         ELSE \E revoked \in BOOLEAN :
                LET inode == fs[relative_path]
                    acc == ProcessFile(Acc, relative_path, inode, revoked)
                IN  /\ revoked => inode.mode = "rw-" /\ revokes < MaxRevokes
                    /\ fs' = IF revoked
                             THEN [fs EXCEPT ![relative_path].mode = "---"]
                             ELSE fs
                    /\ revokes' = IF revoked THEN revokes + 1 ELSE revokes
                    /\ quiet' = (quiet /\ ~revoked)
                    /\ md_parts' = acc.md_parts
                    /\ file_count' = acc.file_count
                    /\ total_size' = acc.total_size
                    /\ file_types' = acc.file_types
                    /\ stderr' = acc.stderr
                    /\ work' = Tail(work)
                    /\ UNCHANGED <<pc, runs, stack, tree_lines, stdout, history>>

\* lines 202-207
Summary ==
  << <<"- Total files: ", file_count>>,
     <<"- Total size: ", total_size>>,
     <<"- File types: ",
       { IF ft = <<>> THEN <<"unknown">> ELSE ft : ft \in file_types }>> >>

\* the size in bytes of a written document
DocBytes(doc) == 512 * Len(doc)

\* lines 202-213: the summary, the single write and the success line
Finish ==
  /\ pc = "walk" /\ work = <<>>
  /\ UNCHANGED <<rootParts, output_file, guess_type_raises, clock, revokes,
                 quiet, runs>>
  /\ LET doc == md_parts \o Summary
         written == File(doc, DocBytes(doc), clock)
     IN  IF output_file = External
         THEN /\ outside' = doc
              /\ md_parts' = doc
              /\ pc' = "done"
              /\ stdout' = Append(stdout, <<"exported", output_file>>)
              /\ history' = Append(history, Outcome("written"))
              /\ UNCHANGED <<fs, stack, tree_lines, work, file_count,
                             total_size, file_types, stderr>>
         ELSE IF \/ ~CanStat(Front(output_file))
                 \/ Exists(output_file) /\ fs[output_file].mode # "rw-"
         THEN Abort("PermissionError") /\ UNCHANGED <<fs, outside>>
         ELSE /\ fs' = (output_file :> written) @@ fs
              /\ md_parts' = doc
              /\ pc' = "done"
              /\ stdout' = Append(stdout, <<"exported", output_file>>)
              /\ history' = Append(history, Outcome("written"))
              /\ UNCHANGED <<outside, stack, tree_lines, work, file_count,
                             total_size, file_types, stderr>>

\* ------------------------------------------------------------ invocation
\* python parse.py <folder> -o <output>: a fresh process
Invoke(limit) ==
  /\ pc \in {"setup", "done", "aborted"} /\ runs < limit
  /\ runs' = runs + 1
  /\ clock' = clock + 1
  /\ pc' = "validate"
  /\ stack' = <<>>
  /\ tree_lines' = <<>>
  /\ work' = <<>>
  /\ md_parts' = <<>>
  /\ file_count' = 0
  /\ total_size' = 0
  /\ file_types' = {}
  /\ UNCHANGED <<rootParts, output_file, guess_type_raises, fs, outside,
                 revokes, quiet, stderr, stdout, history>>

\* the program is run once
Start == Invoke(1)

\* the program is run again on what the run before left behind
Restart == Invoke(MaxRuns)

\* lines 143-150: the root is resolved and checked, generate_tree is called
Validate ==
  /\ pc = "validate"
  /\ UNCHANGED envVars
  /\ IF ~Exists(<<>>) THEN Abort("FileNotFoundError")
     ELSE IF fs[<<>>].kind # "dir" THEN Abort("NotADirectoryError")
     ELSE /\ pc' = "tree"
          /\ stack' = <<Frame(<<>>, <<>>, <<>>, 0)>>
          /\ UNCHANGED <<runs, tree_lines, work, md_parts, file_count,
                         total_size, file_types, stderr, stdout, history>>

\* ----------------------------------------------------------- environment
RealDirs == { p \in DOMAIN fs : fs[p].kind = "dir" }
Created(kind) == Cardinality({ p \in DOMAIN fs \ {<<>>} : fs[p].kind = kind })

Touch ==
  /\ pc = "setup" /\ Created("file") < MaxFiles
  /\ \E d \in RealDirs, n \in FileNamePool, size \in SizePool :
       /\ ~Exists(Append(d, n))
       /\ fs' = (Append(d, n) :> File(Content, size, 0)) @@ fs
  /\ UNCHANGED <<rootParts, output_file, guess_type_raises, outside, clock,
                 revokes, quiet, progVars>>

Mkdir ==
  /\ pc = "setup" /\ Created("dir") < MaxDirs
  /\ \E d \in RealDirs, n \in DirNamePool :
       /\ ~Exists(Append(d, n))
       /\ fs' = (Append(d, n) :> Dir) @@ fs
  /\ UNCHANGED <<rootParts, output_file, guess_type_raises, outside, clock,
                 revokes, quiet, progVars>>

Symlink ==
  /\ pc = "setup" /\ Created("link") < MaxLinks
  /\ \E d \in RealDirs, n \in LinkNamePool, target \in RealDirs :
       /\ ~Exists(Append(d, n))
       /\ fs' = (Append(d, n) :> Link(target)) @@ fs
  /\ UNCHANGED <<rootParts, output_file, guess_type_raises, outside, clock,
                 revokes, quiet, progVars>>

\* the inodes the next step of the program looks at: a change made elsewhere
\* commutes with that step and is the same change made later
Prefixes(p) == { SubSeq(p, 1, k) : k \in 0..Len(p) }
NextRead ==
  IF pc = "tree" THEN Prefixes(Top.real)
  ELSE IF work # <<>> THEN Prefixes(Head(work).path)
  ELSE IF output_file = External THEN {}
  ELSE Prefixes(output_file)

\* chmod by someone else, before the program runs or while it does
Revoke ==
  /\ pc \in {"setup", "tree", "walk"} /\ revokes < MaxRevokes
  /\ \E p \in DOMAIN fs :
       /\ pc # "setup" => p \in NextRead
       /\ \/ /\ fs[p].kind = "file" /\ fs[p].mode = "rw-"
             /\ fs' = [fs EXCEPT ![p].mode = "---"]
          \/ /\ fs[p].kind = "dir" /\ fs[p].mode = "rwx"
             /\ \E m \in {"r--", "---"} : fs' = [fs EXCEPT ![p].mode = m]
  /\ revokes' = revokes + 1
  /\ quiet' = (quiet /\ pc = "setup")
  /\ UNCHANGED <<rootParts, output_file, guess_type_raises, outside, clock,
                 progVars>>

\* ------------------------------------------------------------ specification
Init ==
  /\ rootParts \in RootChoices
  /\ output_file \in OutputChoices
  /\ guess_type_raises \in BOOLEAN
  /\ fs \in { <<>>, <<>> :> Dir, <<>> :> File(Content, 128, 0) }
  /\ outside = Stale
  /\ clock = 0
  /\ revokes = 0
  /\ quiet = TRUE
  /\ pc = "setup"
  /\ runs = 0
  /\ stack = <<>>
  /\ tree_lines = <<>>
  /\ work = <<>>
  /\ md_parts = <<>>
  /\ file_count = 0
  /\ total_size = 0
  /\ file_types = {}
  /\ stderr = <<>>
  /\ stdout = <<>>
  /\ history = <<>>

\* one run on a tree of plain files and directories whose permissions
\* others may change meanwhile
Next ==
  \/ Touch \/ Mkdir \/ Revoke
  \/ Start \/ Validate
  \/ TreeCall \/ TreeEntry \/ TreeReturn
  \/ WalkList \/ WalkEntry \/ Finish

Spec == Init /\ [][Next]_vars

\* repeated invocations with nobody else touching the file system
NextTwice ==
  \/ Touch \/ Mkdir \/ Symlink
  \/ Restart \/ Validate
  \/ TreeCall \/ TreeEntry \/ TreeReturn
  \/ WalkList \/ WalkEntry \/ Finish

SpecTwice == Init /\ [][NextTwice]_vars

\* one rendering of the tree, which runs on as long as it has a step to take
NextTree ==
  \/ Touch \/ Mkdir \/ Symlink
  \/ Start \/ Validate
  \/ TreeCall \/ TreeEntry \/ TreeReturn

\* what the rendering does not read is fixed
InitTree ==
  /\ Init
  /\ rootParts = << <<"/">>, <<"home">>, <<"proj">> >>
  /\ output_file = External
  /\ ~guess_type_raises

SpecTree ==
  InitTree /\ [][NextTree]_vars /\ WF_vars(TreeCall \/ TreeEntry \/ TreeReturn)

\* ------------------------------------------------------------ observations
\* the per-file sections md_parts holds
Sections ==
  IF Len(md_parts) <= 5 THEN <<>>
  ELSE SubSeq(md_parts, 6, Len(md_parts) - (IF pc = "done" THEN 3 ELSE 0))

HasIgnored(path) == \E k \in 1..Len(path) : Ignored(path[k])

EntryLines == { k \in 1..Len(tree_lines) : tree_lines[k].entry # None }

Warnings == { k \in 1..Len(stderr) : stderr[k][1] = "warning" }

\* the content of the file output_file names
OutputContent ==
  IF output_file = External THEN outside
  ELSE IF Exists(output_file) THEN fs[output_file].content
  ELSE NoFile

\* C1: a path with an ignored name among its components is in neither
\* output: generate_tree renders no line for an entry that has such a name on
\* its way down from the root and makes no call below one, and the walk
\* appends no section for a file with such a name among its parts.
C1_IgnoredAbsent ==
  /\ \A k \in EntryLines : ~HasIgnored(tree_lines[k].entry)
  /\ \A k \in 1..Len(stack) : ~HasIgnored(stack[k].root)
  /\ \A k \in 1..Len(Sections) : ~HasIgnored(Parts(Sections[k].heading))

C1_Witness ==
  /\ pc = "done"
  /\ Len(tree_lines) >= 1 /\ Len(Sections) >= 1
  /\ \E p \in DOMAIN fs :
       /\ Len(p) = 2 /\ fs[p].kind = "file"
       /\ p[1] \in IGNORE_DIRS /\ ~Ignored(p[2])

\* C2: all through the walk and when the summary is rendered, file_count is
\* the number of per-file sections in md_parts, whichever files failed.
C2_CountIsSections ==
  /\ file_count = Len(Sections)
  /\ pc = "done" =>
       md_parts[Len(md_parts) - 2] = <<"- Total files: ", Len(Sections)>>

C2_Witness ==
  /\ pc = "done" /\ file_count >= 1
  /\ \E k \in Warnings : stderr[k][3] = "TypeError"

\* C6: the extensions the summary lists are exactly the suffixes, "unknown"
\* for the empty one, of the files that have a section.
SectionTypes ==
  { IF Suffix(Last(Sections[k].heading)) = <<>> THEN <<"unknown">>
    ELSE Suffix(Last(Sections[k].heading)) : k \in 1..Len(Sections) }

C6_TypesAreSectionSuffixes ==
  /\ pc = "walk" =>
       file_types = { Suffix(Last(Sections[k].heading)) : k \in 1..Len(Sections) }
  /\ pc = "done" => md_parts[Len(md_parts)] = <<"- File types: ", SectionTypes>>

C6_Witness ==
  /\ pc = "done"
  /\ md_parts[Len(md_parts)][2] = { <<"unknown">> }
  /\ \E k \in Warnings : Suffix(Last(stderr[k][2])) = <<".", "py">>

\* C3: a run that fails before the write step aborts with one error line
\* and leaves the output file as it was: the step into "aborted" changes
\* nothing in the file system and adds exactly one error line, and the
\* output file changes only in a step that completes a run.
C3_AbortStep ==
  (pc' = "aborted" /\ pc # "aborted") =>
     /\ fs' = fs /\ outside' = outside
     /\ OutputContent' = OutputContent
     /\ Len(stderr') = Len(stderr) + 1
     /\ SubSeq(stderr', 1, Len(stderr)) = stderr
     /\ stderr'[Len(stderr')][1] = "error"
     /\ stdout' = stdout

C3_OnlySuccessWrites == (OutputContent' # OutputContent) => pc' = "done"

C3_AbortWritesNothing == [][C3_AbortStep /\ C3_OnlySuccessWrites]_vars

\* aborted in the middle of the walk, the earlier export untouched
C3_Witness ==
  /\ pc = "aborted" /\ Len(md_parts) >= 5
  /\ output_file = External /\ outside = Stale
  /\ stderr[Len(stderr)][1] = "error"

\* the files the walk can reach and read when the run is over
Included(p) ==
  /\ fs[p].kind = "file" /\ fs[p].mode = "rw-"
  /\ p # output_file
  /\ ~HasIgnored(Parts(p))
  /\ \A k \in 0..(Len(p) - 1) : fs[SubSeq(p, 1, k)].mode = "rwx"
  /\ detect_content_type(Last(p)) # Raised

AllOthersIncluded ==
  \A p \in DOMAIN fs :
     Included(p) => \E k \in 1..Len(Sections) : Sections[k].heading = p

\* C4: the step the walk takes on an unreadable regular file appends no
\* section, emits a warning and goes on with the walk; and a run that is
\* done has written md_parts to the output file with a section for every
\* other regular file it could reach.
C4_SkipStep ==
  LET p == Head(work).path
  IN  ( /\ pc = "walk" /\ work # <<>> /\ Head(work).op = "entry"
        /\ ~HasIgnored(Parts(p)) /\ CanStat(Front(p)) /\ is_file(p)
        /\ fs[p].mode # "rw-"
        /\ progVars' # progVars )
      => /\ pc' = "walk"
         /\ work' = Tail(work)
         /\ md_parts' = md_parts
         /\ stderr' = Append(stderr, <<"warning", p, "PermissionError">>)

C4_Completes ==
  (pc' = "done" /\ pc # "done") =>
     (AllOthersIncluded' /\ OutputContent' = md_parts')

C4_OneFileNeverAborts == [][C4_SkipStep /\ C4_Completes]_vars

C4_Witness ==
  /\ pc = "done" /\ Len(Sections) >= 1 /\ OutputContent = md_parts
  /\ \E k \in Warnings : stderr[k][3] = "PermissionError"

\* C8: when the file is closed to the program between read_text and
\* get_file_stats, the step appends a section with the heading and the
\* content and no stats lines, counts the file, adds its suffix and leaves
\* total_size alone.
C8_Step ==
  LET p == Head(work).path
  IN  ( /\ pc = "walk" /\ work # <<>> /\ Head(work).op = "entry"
        /\ work' = Tail(work) /\ revokes' = revokes + 1
        /\ detect_content_type(Last(p)) # Raised )
      => /\ md_parts' = Append(md_parts,
                          [heading |-> p, info |-> <<>>,
                           language |-> detect_content_type(Last(p)),
                           content |-> fs[p].content])
         /\ file_count' = file_count + 1
         /\ Suffix(Last(p)) \in file_types'
         /\ total_size' = total_size

C8_NoStatsStillIncluded == [][C8_Step]_vars

C8_Witness ==
  /\ pc = "done" /\ file_count = 2 /\ total_size = 12
  /\ \E k \in 1..Len(Sections) : Sections[k].info = <<>>

\* C5: two runs in a row with no outside change in between produce the
\* same tree section and the same file-contents section.
C5_RunsAgree ==
  (Len(history) = 2 /\ quiet) =>
     /\ history[1].tree = history[2].tree
     /\ history[1].sections = history[2].sections

\* the directory names of the file system as it is
NoIgnoredNames == \A p \in DOMAIN fs : ~HasIgnored(p)

\* the entries generate_tree comes across from the directory inode d at
\* depth on, with names the names of d still to count
RECURSIVE EntriesFrom(_, _, _)
EntriesFrom(d, depth, names) ==
  IF names = {} THEN 0
  ELSE LET n == CHOOSE x \in names : TRUE
           e == Append(d, n)
       IN  1 + (IF is_dir(e) /\ depth < DefaultMaxDepth
                THEN EntriesFrom(Resolve(e), depth + 1, Names(Resolve(e)))
                ELSE 0)
             + EntriesFrom(d, depth, names \ {n})

\* the directories among them that are listed at depth max_depth
RECURSIVE CutOffFrom(_, _, _)
CutOffFrom(d, depth, names) ==
  IF names = {} THEN 0
  ELSE LET n == CHOOSE x \in names : TRUE
           e == Append(d, n)
       IN  (IF ~is_dir(e) THEN 0
            ELSE IF depth < DefaultMaxDepth
            THEN CutOffFrom(Resolve(e), depth + 1, Names(Resolve(e)))
            ELSE 1)
           + CutOffFrom(d, depth, names \ {n})

TreeRendered == pc = "walk" /\ Len(md_parts) = 5

\* C7 as claimed: with no ignored name anywhere, generate_tree returns as
\* many lines as there are entries down to the cut-off.
C7_LinesAreEntries ==
  (TreeRendered /\ NoIgnoredNames) =>
     Len(tree_lines) = EntriesFrom(<<>>, 0, Names(<<>>))

\* C7: with no ignored name anywhere, generate_tree returns one line for
\* each entry down to the cut-off and one marker line more for each
\* directory listed at depth max_depth.
C7_LinesAreEntriesAndMarkers ==
  (TreeRendered /\ NoIgnoredNames) =>
     /\ Cardinality(EntryLines) = EntriesFrom(<<>>, 0, Names(<<>>))
     /\ Len(tree_lines) = EntriesFrom(<<>>, 0, Names(<<>>))
                          + CutOffFrom(<<>>, 0, Names(<<>>))

C7_Witness ==
  /\ TreeRendered /\ NoIgnoredNames
  /\ \E k \in 1..Len(tree_lines) : tree_lines[k].entry = None
  /\ \E k \in EntryLines : tree_lines[k].slash = ""

\* C9: the calls of generate_tree on the stack have depths 0, 1, 2, ... and
\* none beyond max_depth + 1; a call beyond max_depth never lists entries:
\* its one step appends the marker line and returns; and the rendering
\* always comes to an end.
C9_StackBounded ==
  \A k \in 1..Len(stack) :
     /\ stack[k].depth = k - 1
     /\ stack[k].depth <= DefaultMaxDepth + 1
     /\ stack[k].depth > DefaultMaxDepth => ~stack[k].entered /\ k = Len(stack)

C9_MarkerStep ==
  ( /\ pc = "tree" /\ stack # <<>> /\ Top.depth > DefaultMaxDepth
    /\ progVars' # progVars )
  => /\ tree_lines' = Append(tree_lines, MarkerLine(Top.prefix))
     /\ stack' = Front(stack)

C9_TreeTerminates ==
  /\ []C9_StackBounded
  /\ [][C9_MarkerStep]_vars
  /\ (pc = "tree") ~> (pc # "tree")

\* a call at depth max_depth + 1, reached through a symlink to an ancestor
C9_Witness ==
  /\ pc = "tree" /\ Len(stack) = DefaultMaxDepth + 2
  /\ \E p \in DOMAIN fs : fs[p].kind = "link"

\* the regular files with a line in the tree and those with a section
TreeFiles ==
  { Resolve(tree_lines[k].entry) :
      k \in { j \in EntryLines : is_file(tree_lines[j].entry) } }
SectionFiles == { Sections[k].heading : k \in 1..Len(Sections) }

\* C10: when nothing failed and nothing was cut off, a regular file has a
\* line in the tree if and only if it has a section.
C10_TreeAndSectionsAgree ==
  ( /\ pc = "done" /\ Warnings = {} /\ revokes = 0
    /\ \A k \in 1..Len(tree_lines) : tree_lines[k].entry # None )
  => TreeFiles = SectionFiles

====
